---------------------------- MODULE Spec2Model ----------------------------
(***************************************************************************)
(* Model of the archery tournament simulator (src/model.py).               *)
(*                                                                         *)
(* The Model object loads a stream of pseudorandom numbers once, then      *)
(* start_simulation consumes it strictly in order to generate the players, *)
(* and for every round of every game the luck values, endurance values,    *)
(* NS/LS/AS/ES shots and the winners.  One action models one handler call  *)
(* or one loop iteration of generate_shots_and_endurance_values; pc is the *)
(* position of start_simulation.                                           *)
(*                                                                         *)
(* Stream values are kept in thousandths (500 stands for 0.5), so every    *)
(* threshold comparison of the code is an integer comparison.              *)
(***************************************************************************)
EXTENDS Integers, Sequences, FiniteSets, TLC

(***************************************************************************)
(* Sizes.  The source runs GAMES_AMOUNT = 10000 games of ROUNDS_PER_GAME = *)
(* 10 rounds with PLAYERS_PER_TEAM = 5 (src/model.py:7-9); the model keeps *)
(* the names and scales the numbers down.                                  *)
(***************************************************************************)
GAMES_AMOUNT == 2
PLAYERS_PER_TEAM == 2
ROUNDS_PER_GAME == 4

\* longest stream enumerated beyond the feasibility estimate
ExtraLen == 1

estimated_per_round == 55

NumPlayers == 2 * PLAYERS_PER_TEAM
PlayerIds == 1..NumPlayers

\* start_simulation creates the players team by team
TeamName(i) == IF i <= PLAYERS_PER_TEAM THEN "Team A" ELSE "Team B"

(***************************************************************************)
(* The stream values the model enumerates (thousandths): the thresholds of *)
(* the code (0.15, 0.25, 0.33, 0.45, 0.5, 0.65, 0.66, 0.92, 0.95) and one  *)
(* value beside them.                                                      *)
(***************************************************************************)
Vals == << 50, 150, 250, 330, 450, 500, 650, 660, 800, 920, 950, 990 >>

NumVals == Len(Vals)

ValIndex(v) == CHOOSE i \in 1..NumVals : Vals[i] = v

(***************************************************************************)
(* generate_normal_random(1.5, 1.0) followed by max(0.1, .) for every pair *)
(* (u1, u2) of Vals, in millionths: LuckTable[i][j] is                     *)
(*   max(0.1, 1.5 + sqrt(-2 ln u1) * cos(2 pi u2)),  u1 = Vals[i]/1000,    *)
(* u2 = Vals[j]/1000, evaluated in double precision; two entries are equal *)
(* or ordered exactly as the doubles are.                                  *)
(***************************************************************************)
LuckTable ==
   << << 3827946, 2938749, 1500001, 320789, 100000, 100000, 100000, 188432, 2256395, 3644977, 3827946, 3942917 >>,
      << 3352545, 2644936, 1500001, 561601, 100000, 100000, 355064, 456273, 2101928, 3206941, 3352545, 3444037 >>,
      << 3083613, 2478727, 1500000, 697828, 100000, 100000, 521273, 607790, 2014547, 2959146, 3083613, 3161824 >>,
      << 2916188, 2375253, 1500000, 782636, 100000, 100000, 624747, 702117, 1960147, 2804881, 2916188, 2986130 >>,
      << 2701879, 2242802, 1500000, 891193, 298121, 236269, 757198, 822859, 1890514, 2607416, 2701879, 2761237 >>,
      << 2619783, 2192064, 1500000, 932778, 380217, 322590, 807936, 869112, 1863840, 2531772, 2619783, 2675087 >>,
      << 2382776, 2045586, 1500000, 1052833, 617224, 571794, 954414, 1002643, 1786831, 2313393, 2382776, 2426374 >>,
      << 2366992, 2035830, 1500000, 1060829, 633008, 588391, 964170, 1011535, 1781703, 2298849, 2366992, 2409810 >>,
      << 2135351, 1892668, 1500000, 1178166, 864649, 831953, 1107332, 1142042, 1706438, 2085414, 2135351, 2166729 >>,
      << 1888380, 1740032, 1500000, 1303268, 1111620, 1091633, 1259968, 1281186, 1626192, 1857854, 1888380, 1907561 >>,
      << 1804615, 1688263, 1500000, 1345698, 1195385, 1179709, 1311737, 1328379, 1598975, 1780674, 1804615, 1819659 >>,
      << 1634838, 1583334, 1500000, 1431698, 1365162, 1358223, 1416666, 1424032, 1543811, 1624240, 1634838, 1641497 >> >>

generate_normal_random(u1, u2) == LuckTable[ValIndex(u1)][ValIndex(u2)]

VARIABLES
  numbers,            \* self.numbers: the loaded stream
  current_number,     \* self.current_number: index of the next number
  consumed,           \* history: the values get_pseudorandom_number returned
  failed,             \* history: number of calls that raised IndexError
  pc,                 \* position of start_simulation
  players,            \* self.players
  games,              \* self.games
  rounds,             \* rounds of the game in progress
  players_luck,       \* luck value of every player drawn so far this round
  luck_values,        \* the two LuckValues of the round
  shots,              \* shots of the round in progress
  endurance_values,   \* endurance values of the round in progress
  points_total_rd,    \* round-local tally of every player
  p,                  \* player the current loop is at
  endurance,          \* EnduranceValue.value of player p
  current_endurance,  \* what is left of it in the NS loop
  pts,                \* tally of player p in the NS loop
  luckiest_players,   \* players that get an LS shot
  max_pst_list,       \* players tied at the maximum tally
  k,                  \* position in luckiest_players / max_pst_list
  shown,              \* number of presenter.show_results calls
  results,            \* the bundle handed to the presenter
  conf,               \* generate_numbers: the configuration passed in
  X_i_minus_1,        \* generate_numbers: the previous recurrence value
  gen_i,              \* generate_numbers: the loop variable i
  gen_numbers,        \* generate_numbers: the local list numbers
  gen_pc              \* generate_numbers: position of the call

vars == << numbers, current_number, consumed, failed, pc, players, games,
           rounds, players_luck, luck_values, shots, endurance_values,
           points_total_rd, p, endurance, current_endurance, pts,
           luckiest_players, max_pst_list, k, shown, results,
           conf, X_i_minus_1, gen_i, gen_numbers, gen_pc >>

\* the local state of a call of generate_numbers (src/numbs_aux.py)
genVars == << conf, X_i_minus_1, gen_i, gen_numbers, gen_pc >>

roundVars == << players_luck, luck_values, shots, endurance_values,
                points_total_rd, p, endurance, current_endurance, pts,
                luckiest_players, max_pst_list, k >>

(***************************************************************************)
(* The streams the model enumerates.  A stream is the output of a linear   *)
(* congruential recurrence mapped onto Vals; multiplier 1 with increment 0 *)
(* gives a constant stream.                                                *)
(***************************************************************************)
StreamBits == 6

StreamModulus == 2 ^ StreamBits

StreamMultipliers == {1, 5, 13}

StreamIncrements == {0, 1, 7}

StreamSeeds == {3, 10, 12, 21, 34, 50, 63}

estimated_total == GAMES_AMOUNT * ROUNDS_PER_GAME * estimated_per_round

StreamLens == {0, 3, 2 * NumPlayers, 60, 101, 215, estimated_total - 1,
               estimated_total + ExtraLen}

\* << A, C >> with x_n = (A * x_0 + C) % StreamModulus for x_i = a * x_(i-1) + c
RECURSIVE Iterate(_, _, _)
Iterate(a, c, n) ==
  IF n = 0 THEN << 1, 0 >>
  ELSE IF n % 2 = 0
       THEN LET h == Iterate(a, c, n \div 2)
            IN << (h[1] * h[1]) % StreamModulus,
                  (h[1] * h[2] + h[2]) % StreamModulus >>
       ELSE LET h == Iterate(a, c, n - 1)
            IN << (a * h[1]) % StreamModulus, (a * h[2] + c) % StreamModulus >>

GenStream(a, c, x, n) ==
  [i \in 1..n |->
     LET h == Iterate(a, c, i - 1)
     IN Vals[1 + (((h[1] * x + h[2]) % StreamModulus) * NumVals)
                   \div StreamModulus]]

Streams ==
  { GenStream(a, c, x, n) : a \in StreamMultipliers, c \in StreamIncrements,
                            x \in StreamSeeds, n \in StreamLens }

\* variant: the cursor is advanced twice per call
get_pseudorandom_number_skip(nums, cur) ==
  IF cur >= Len(nums)
  THEN [ok |-> FALSE, number |-> 0, next |-> cur]
  ELSE [ok |-> TRUE, number |-> nums[cur + 1], next |-> cur + 2]

\* variant: the cursor is left where it was
get_pseudorandom_number_peek(nums, cur) ==
  IF cur >= Len(nums)
  THEN [ok |-> FALSE, number |-> 0, next |-> cur]
  ELSE [ok |-> TRUE, number |-> nums[cur + 1], next |-> cur]

\* variant: an exhausted stream starts over instead of raising
get_pseudorandom_number_wrap(nums, cur) ==
  IF Len(nums) = 0
  THEN [ok |-> FALSE, number |-> 0, next |-> cur]
  ELSE IF cur >= Len(nums)
       THEN [ok |-> TRUE, number |-> nums[1], next |-> 1]
       ELSE [ok |-> TRUE, number |-> nums[cur + 1], next |-> cur + 1]

(***************************************************************************)
(* Model.get_pseudorandom_number: ok = FALSE stands for the IndexError.    *)
(***************************************************************************)
get_pseudorandom_number(nums, cur) ==
  IF cur >= Len(nums)
  THEN [ok |-> FALSE, number |-> 0, next |-> cur]
  ELSE [ok |-> TRUE, number |-> nums[cur + 1], next |-> cur + 1]

\* one call from the current state
Draw1 == get_pseudorandom_number(numbers, current_number)

\* a second call right after a successful first one
Draw2 == get_pseudorandom_number(numbers, Draw1.next)

\* state change of the calls an action makes: ds is the sequence of their results
Consume(ds) ==
  LET good == SelectSeq(ds, LAMBDA d : d.ok)
      bad  == SelectSeq(ds, LAMBDA d : ~d.ok)
  IN /\ current_number' = IF good = << >> THEN current_number
                          ELSE good[Len(good)].next
     /\ consumed' = consumed \o [i \in 1..Len(good) |-> good[i].number]
     /\ failed' = failed + Len(bad)

\* no call of generate_numbers is in progress
GenIdle ==
  /\ conf = [k |-> 0, g |-> 0, X0 |-> 0, c |-> 0]
  /\ X_i_minus_1 = 0
  /\ gen_i = 0
  /\ gen_numbers = << >>
  /\ gen_pc = "idle"

\* the Model object as __init__ leaves it, but for the stream
Constructed ==
  /\ current_number = 0
  /\ consumed = << >>
  /\ failed = 0
  /\ pc = "start"
  /\ players = << >>
  /\ games = << >>
  /\ rounds = << >>
  /\ players_luck = << >>
  /\ luck_values = << >>
  /\ shots = << >>
  /\ endurance_values = << >>
  /\ points_total_rd = << >>
  /\ p = 1
  /\ endurance = 0
  /\ current_endurance = 0
  /\ pts = 0
  /\ luckiest_players = << >>
  /\ max_pst_list = << >>
  /\ k = 1
  /\ shown = 0
  /\ results = << >>

Init ==
  /\ numbers \in Streams
  /\ Constructed
  /\ GenIdle

(***************************************************************************)
(* start_simulation, lines 239-250: the feasibility check; when it fails   *)
(* the user decides whether the run goes on.                               *)
(***************************************************************************)
check_simulation_feasibility == Len(numbers) - current_number >= estimated_total

StartSimulation ==
  /\ pc = "start"
  /\ \/ /\ check_simulation_feasibility
        /\ pc' = "players"
     \/ /\ ~check_simulation_feasibility
        /\ \E response \in {"s", "n"} :
             pc' = IF response = "s" THEN "players" ELSE "cancelled"
  /\ UNCHANGED << genVars, numbers, current_number, consumed, failed, players, games,
                  rounds, roundVars, shown, results >>

(***************************************************************************)
(* generate_player: two draws, gender and original endurance.  The loop    *)
(* that creates the players is outside the try block, so an IndexError     *)
(* here leaves start_simulation uncaught.                                  *)
(***************************************************************************)
Player(name, is_male, original_endurance) ==
  [ name |-> name, team |-> TeamName(name), is_male |-> is_male,
    original_endurance |-> original_endurance, experience |-> 10,
    total_points |-> 0 ]

generate_player(name, u1, u2) ==
  Player(name, u1 < 500, 25 + ((45 - 25) * u2) \div 1000)

GeneratePlayer ==
  /\ pc = "players"
  /\ Consume(IF Draw1.ok THEN << Draw1, Draw2 >> ELSE << Draw1 >>)
  /\ IF Draw1.ok /\ Draw2.ok
     THEN /\ players' = Append(players,
                 generate_player(Len(players) + 1, Draw1.number, Draw2.number))
          /\ pc' = IF Len(players) + 1 = NumPlayers THEN "luck" ELSE "players"
     ELSE /\ pc' = "uncaught"
          /\ UNCHANGED players
  /\ UNCHANGED << genVars, numbers, games, rounds, roundVars, shown, results >>

\* the handler of a failed draw inside the try block of start_simulation
Raise == pc' = "IndexError"

(***************************************************************************)
(* generate_players_luck_values: one luck sample per player (two draws     *)
(* each, floor 0.1 included in the table), then the luckiest player of     *)
(* each team.  list.sort is stable, also with reverse=True, so among equal *)
(* values the first player in roster order stays first.                    *)
(***************************************************************************)
LuckValue(player, value) == [player |-> player, value |-> value]

TopLucky(pl, team) ==
  LET members == { i \in PlayerIds : TeamName(i) = team }
      best == CHOOSE i \in members :
                /\ \A j \in members : pl[j] <= pl[i]
                /\ \A j \in members : pl[j] = pl[i] => i <= j
  IN LuckValue(best, pl[best])

generate_players_luck_values(pl) ==
  << TopLucky(pl, "Team A"), TopLucky(pl, "Team B") >>

GenerateLuck ==
  /\ pc = "luck"
  /\ Consume(IF Draw1.ok THEN << Draw1, Draw2 >> ELSE << Draw1 >>)
  /\ IF Draw1.ok /\ Draw2.ok
     THEN LET pl == Append(players_luck,
                       generate_normal_random(Draw1.number, Draw2.number))
          IN IF Len(pl) = NumPlayers
             THEN /\ luck_values' = generate_players_luck_values(pl)
                  /\ players_luck' = << >>
                  /\ pc' = "endurance"
             ELSE /\ players_luck' = pl
                  /\ pc' = "luck"
                  /\ UNCHANGED luck_values
     ELSE /\ Raise
          /\ UNCHANGED << players_luck, luck_values >>
  /\ shots' = << >>
  /\ endurance_values' = << >>
  /\ points_total_rd' = << >>
  /\ p' = 1
  /\ UNCHANGED << genVars, numbers, players, games, rounds, endurance,
                  current_endurance, pts, luckiest_players, max_pst_list, k,
                  shown, results >>

(***************************************************************************)
(* generatePlayer_endurance and get_random_reduction.                      *)
(***************************************************************************)
EnduranceValue(player, value) == [player |-> player, value |-> value]

Max(a, b) == IF a >= b THEN a ELSE b

get_random_reduction(rand) ==
  IF rand < 330 THEN 1 ELSE IF rand < 660 THEN 2 ELSE 3

\* the value of the player's EnduranceValue in round r of rds
EnduranceOf(rds, r, player) ==
  LET evs == rds[r].endurance_values
  IN evs[CHOOSE i \in 1..Len(evs) :
           /\ evs[i].player = player
           /\ \A j \in 1..(i - 1) : evs[j].player # player].value

\* variant: the reduction is drawn in the first round of a game too
NeedsReduction_always(player, rds) == player.experience < 19

\* whether generatePlayer_endurance draws a number
NeedsReduction(player, rds) == rds # << >> /\ player.experience < 19

\* variant: the experience rule is applied in the first round too
generatePlayer_endurance_carry(player, rds, rand) ==
  IF player.experience >= 19
  THEN Max(0, player.original_endurance - 1)
  ELSE IF rds = << >>
       THEN Max(0, player.original_endurance)
       ELSE LET last_endurance == EnduranceOf(rds, Len(rds), player.name)
                endurance_spent ==
                  IF Len(rds) = 1
                  THEN player.original_endurance - last_endurance
                  ELSE EnduranceOf(rds, Len(rds) - 1, player.name)
                         - last_endurance
            IN Max(0, last_endurance
                        + Max(0, endurance_spent - get_random_reduction(rand)))

\* variant: the recovery is not floored at 0
generatePlayer_endurance_noclamp(player, rds, rand) ==
  IF rds = << >>
  THEN Max(0, player.original_endurance)
  ELSE LET last_endurance == EnduranceOf(rds, Len(rds), player.name)
           endurance_spent ==
             IF Len(rds) = 1
             THEN player.original_endurance - last_endurance
             ELSE EnduranceOf(rds, Len(rds) - 1, player.name) - last_endurance
       IN IF player.experience >= 19
          THEN Max(0, player.original_endurance - 1)
          ELSE Max(0, last_endurance
                        + (endurance_spent - get_random_reduction(rand)))

\* variant: the experienced player loses 1 from the last round's endurance
generatePlayer_endurance_last(player, rds, rand) ==
  IF rds = << >>
  THEN Max(0, player.original_endurance)
  ELSE LET last_endurance == EnduranceOf(rds, Len(rds), player.name)
           endurance_spent ==
             IF Len(rds) = 1
             THEN player.original_endurance - last_endurance
             ELSE EnduranceOf(rds, Len(rds) - 1, player.name) - last_endurance
       IN IF player.experience >= 19
          THEN Max(0, last_endurance - 1)
          ELSE Max(0, last_endurance
                        + Max(0, endurance_spent - get_random_reduction(rand)))

\* rand is the draw of get_random_reduction, read only when NeedsReduction
generatePlayer_endurance(player, rds, rand) ==
  IF rds = << >>
  THEN Max(0, player.original_endurance)
  ELSE LET last_endurance == EnduranceOf(rds, Len(rds), player.name)
           endurance_spent ==
             IF Len(rds) = 1
             THEN player.original_endurance - last_endurance
             ELSE EnduranceOf(rds, Len(rds) - 1, player.name) - last_endurance
       IN IF player.experience >= 19
          THEN Max(0, player.original_endurance - 1)
          ELSE Max(0, last_endurance
                        + Max(0, endurance_spent - get_random_reduction(rand)))

GeneratePlayerEndurance ==
  /\ pc = "endurance"
  /\ LET need == NeedsReduction(players[p], rounds)
     IN /\ Consume(IF need THEN << Draw1 >> ELSE << >>)
        /\ IF need /\ ~Draw1.ok
           THEN /\ Raise
                /\ UNCHANGED << endurance, current_endurance, pts >>
           ELSE /\ endurance' = generatePlayer_endurance(players[p], rounds,
                                                         Draw1.number)
                /\ current_endurance' = endurance'
                /\ pts' = 0
                /\ pc' = "ns"
  /\ UNCHANGED << genVars, numbers, players, games, rounds, players_luck, luck_values,
                  shots, endurance_values, points_total_rd, p,
                  luckiest_players, max_pst_list, k, shown, results >>

(***************************************************************************)
(* do_shot with calculate_score_male / calculate_score_female.             *)
(***************************************************************************)
\* variant: the thresholds are exclusive
calculate_score_male_lt(score) ==
  IF score < 150 THEN 10
  ELSE IF score < 450 THEN 9
  ELSE IF score < 920 THEN 8
  ELSE 0

calculate_score_male(score) ==
  IF score <= 150 THEN 10
  ELSE IF score <= 450 THEN 9
  ELSE IF score <= 920 THEN 8
  ELSE 0

calculate_score_female(score) ==
  IF score <= 250 THEN 10
  ELSE IF score <= 650 THEN 9
  ELSE IF score <= 950 THEN 8
  ELSE 0

Shot(player, score, shot_number, type) ==
  [player |-> player, score |-> score, shot_number |-> shot_number,
   type |-> type]

\* variant: the shots are numbered from 0
do_shot_zero(player, n_shot, type, num) ==
  Shot(player.name,
       IF player.is_male THEN calculate_score_male(num)
                         ELSE calculate_score_female(num),
       n_shot - 1, type)

do_shot(player, n_shot, type, num) ==
  Shot(player.name,
       IF player.is_male THEN calculate_score_male(num)
                         ELSE calculate_score_female(num),
       n_shot, type)

\* variant: a score of 10 is not added
AddPoints_cap(pls, name, score) ==
  [pls EXCEPT ![name].total_points = @ + (IF score = 10 THEN 0 ELSE score)]

\* variant: the score replaces the total instead of being added
AddPoints_assign(pls, name, score) ==
  [pls EXCEPT ![name].total_points = score]

\* player.total_points += score
AddPoints(pls, name, score) ==
  [pls EXCEPT ![name].total_points = @ + score]

\* variant: a shot costs 10 units of endurance
NormalShot_ten ==
  /\ pc = "ns"
  /\ current_endurance >= 5
  /\ Consume(<< Draw1 >>)
  /\ IF Draw1.ok
     THEN LET shot == do_shot(players[p], Len(shots) + 1, "NS", Draw1.number)
          IN /\ shots' = Append(shots, shot)
             /\ current_endurance' = current_endurance - 10
             /\ players' = AddPoints(players, p, shot.score)
             /\ pts' = pts + shot.score
             /\ pc' = "ns"
     ELSE /\ Raise
          /\ UNCHANGED << shots, current_endurance, players, pts >>
  /\ UNCHANGED << genVars, numbers, games, rounds, players_luck, luck_values,
                  endurance_values, points_total_rd, p, endurance,
                  luckiest_players, max_pst_list, k, shown, results >>

(***************************************************************************)
(* The NS loop of generate_shots_and_endurance_values, lines 523-538.      *)
(***************************************************************************)
NormalShot ==
  /\ pc = "ns"
  /\ current_endurance >= 5
  /\ Consume(<< Draw1 >>)
  /\ IF Draw1.ok
     THEN LET shot == do_shot(players[p], Len(shots) + 1, "NS", Draw1.number)
          IN /\ shots' = Append(shots, shot)
             /\ current_endurance' = current_endurance - 5
             /\ players' = AddPoints(players, p, shot.score)
             /\ pts' = pts + shot.score
             /\ pc' = "ns"
     ELSE /\ Raise
          /\ UNCHANGED << shots, current_endurance, players, pts >>
  /\ UNCHANGED << genVars, numbers, games, rounds, players_luck, luck_values,
                  endurance_values, points_total_rd, p, endurance,
                  luckiest_players, max_pst_list, k, shown, results >>

EndNormalShots ==
  /\ pc = "ns"
  /\ current_endurance < 5
  /\ endurance_values' = Append(endurance_values, EnduranceValue(p, endurance))
  /\ points_total_rd' = Append(points_total_rd, pts)
  /\ IF p = NumPlayers
     THEN /\ pc' = "lucky"
          /\ p' = 1
     ELSE /\ pc' = "endurance"
          /\ p' = p + 1
  /\ UNCHANGED << genVars, numbers, current_number, consumed, failed, players, games,
                  rounds, players_luck, luck_values, shots, endurance,
                  current_endurance, pts, luckiest_players, max_pst_list, k,
                  shown, results >>

(***************************************************************************)
(* Lines 542-557: the players that get an LS shot.  The two luckiest of    *)
(* the round come first, in roster order.  With three or more completed    *)
(* rounds, every player named three times in the luck values of the last   *)
(* three rounds is appended; the code walks set(names_list), whose order   *)
(* for strings depends on the interpreter's hash seed, so every order of   *)
(* the streak players is possible.                                         *)
(***************************************************************************)
RoundLuckiest(lvs) ==
  SelectSeq([i \in PlayerIds |-> i],
            LAMBDA i : i = lvs[1].player \/ i = lvs[2].player)

\* how often the player is named in the luck values of the rounds in rs
LuckCount(rds, rs, player) ==
  Cardinality({ << r, i >> \in rs \X {1, 2} :
                  rds[r].luck_values[i].player = player })

LastRounds(rds, n) ==
  { r \in 1..Len(rds) : (Len(rds) + 1) - rds[r].round_number <= n }

\* variant: the rounds of the previous game count for the streak
StreakPlayers_run(rds) ==
  LET before == IF games = << >> THEN << >> ELSE games[Len(games)].rounds
      all == before \o rds
  IN IF Len(all) >= 3
     THEN { i \in PlayerIds : LuckCount(all, (Len(all) - 2)..Len(all), i) = 3 }
     ELSE {}

\* variant: two of the last three rounds are enough for the streak
StreakPlayers_two(rds) ==
  IF Len(rds) >= 3
  THEN { i \in PlayerIds : LuckCount(rds, LastRounds(rds, 3), i) >= 2 }
  ELSE {}

StreakPlayers(rds) ==
  IF Len(rds) >= 3
  THEN { i \in PlayerIds : LuckCount(rds, LastRounds(rds, 3), i) = 3 }
  ELSE {}

\* the orders in which a set can be walked
Orderings(S) ==
  { s \in [1..Cardinality(S) -> S] :
      \A i, j \in 1..Cardinality(S) : i # j => s[i] # s[j] }

SelectLuckyPlayers ==
  /\ pc = "lucky"
  /\ \E order \in Orderings(StreakPlayers(rounds)) :
       luckiest_players' = RoundLuckiest(luck_values) \o order
  /\ k' = 1
  /\ pc' = "ls"
  /\ UNCHANGED << genVars, numbers, current_number, consumed, failed, players, games,
                  rounds, players_luck, luck_values, shots, endurance_values,
                  points_total_rd, p, endurance, current_endurance, pts,
                  max_pst_list, shown, results >>

\* lines 560-563, one iteration
LuckyShot ==
  /\ pc = "ls"
  /\ Consume(<< Draw1 >>)
  /\ IF Draw1.ok
     THEN LET shot == do_shot(players[luckiest_players[k]], Len(shots) + 1,
                              "LS", Draw1.number)
          IN /\ shots' = Append(shots, shot)
             /\ players' = AddPoints(players, luckiest_players[k], shot.score)
             /\ IF k < Len(luckiest_players)
                THEN /\ k' = k + 1
                     /\ pc' = "ls"
                ELSE /\ k' = 1
                     /\ pc' = IF Len(rounds) >= 2 THEN "as" ELSE "tie"
     ELSE /\ Raise
          /\ UNCHANGED << shots, players, k >>
  /\ p' = 1
  /\ UNCHANGED << genVars, numbers, games, rounds, players_luck, luck_values,
                  endurance_values, points_total_rd, endurance,
                  current_endurance, pts, luckiest_players, max_pst_list,
                  shown, results >>

(***************************************************************************)
(* Lines 567-583: the AS shot of player p, one iteration of the loop over  *)
(* the players.                                                            *)
(***************************************************************************)
\* variant: one of the last two rounds is enough
has_special_shots_consecutive_any(rds, player) ==
  \E r \in (Len(rds) - 1)..Len(rds) :
    \E i \in 1..Len(rds[r].luck_values) : rds[r].luck_values[i].player = player

has_special_shots_consecutive(rds, player) ==
  \A r \in (Len(rds) - 1)..Len(rds) :
    \E i \in 1..Len(rds[r].luck_values) : rds[r].luck_values[i].player = player

AdvantageShot ==
  /\ pc = "as"
  /\ LET has == has_special_shots_consecutive(rounds, p)
     IN /\ Consume(IF has THEN << Draw1 >> ELSE << >>)
        /\ IF has /\ ~Draw1.ok
           THEN /\ Raise
                /\ UNCHANGED << shots, players, p >>
           ELSE /\ IF has
                   THEN LET shot == do_shot(players[p], Len(shots) + 1, "AS",
                                            Draw1.number)
                        IN /\ shots' = Append(shots, shot)
                           /\ players' = AddPoints(players, p, shot.score)
                   ELSE UNCHANGED << shots, players >>
                /\ IF p < NumPlayers
                   THEN /\ p' = p + 1
                        /\ pc' = "as"
                   ELSE /\ p' = 1
                        /\ pc' = "tie"
  /\ UNCHANGED << genVars, numbers, games, rounds, players_luck, luck_values,
                  endurance_values, points_total_rd, endurance,
                  current_endurance, pts, luckiest_players, max_pst_list, k,
                  shown, results >>

(***************************************************************************)
(* Lines 587-598: the tie-break.  max_pst_list holds the entries of        *)
(* points_total_rd at the maximum (the same dict objects, so an ES score   *)
(* is added to the entry in points_total_rd).                              *)
(***************************************************************************)
MaxOf(f) == CHOOSE m \in { f[i] : i \in DOMAIN f } : \A i \in DOMAIN f : f[i] <= m

\* variant: every player takes part in the tie-break
TiedAtMax_all(tally) == [i \in 1..Len(tally) |-> i]

TiedAtMax(tally) ==
  SelectSeq([i \in 1..Len(tally) |-> i], LAMBDA i : tally[i] = MaxOf(tally))

\* variant: the loop stops as soon as two of the tied players differ
TieUnbroken_any(tally, tied) ==
  Cardinality({ tally[tied[i]] : i \in 1..Len(tied) }) = 1

\* the while condition of line 592
TieUnbroken(tally, tied) ==
  Cardinality({ tally[tied[i]] : i \in 1..Len(tied) }) # Len(tied)

FindTies ==
  /\ pc = "tie"
  /\ max_pst_list' = TiedAtMax(points_total_rd)
  /\ k' = 1
  /\ pc' = IF Len(max_pst_list') > 1
              /\ TieUnbroken(points_total_rd, max_pst_list')
           THEN "es" ELSE "winner"
  /\ UNCHANGED << genVars, numbers, current_number, consumed, failed, players, games,
                  rounds, players_luck, luck_values, shots, endurance_values,
                  points_total_rd, p, endurance, current_endurance, pts,
                  luckiest_players, shown, results >>

ExtraShot ==
  /\ pc = "es"
  /\ Consume(<< Draw1 >>)
  /\ IF Draw1.ok
     THEN LET player == max_pst_list[k]
              shot == do_shot(players[player], Len(shots) + 1, "ES",
                              Draw1.number)
          IN /\ shots' = Append(shots, shot)
             /\ players' = AddPoints(players, player, shot.score)
             /\ points_total_rd' =
                  [points_total_rd EXCEPT ![player] = @ + shot.score]
             /\ IF k < Len(max_pst_list)
                THEN /\ k' = k + 1
                     /\ pc' = "es"
                ELSE /\ k' = 1
                     /\ pc' = IF TieUnbroken(points_total_rd', max_pst_list)
                              THEN "es" ELSE "winner"
     ELSE /\ Raise
          /\ UNCHANGED << shots, players, points_total_rd, k >>
  /\ UNCHANGED << genVars, numbers, games, rounds, players_luck, luck_values,
                  endurance_values, p, endurance, current_endurance, pts,
                  luckiest_players, max_pst_list, shown, results >>

(***************************************************************************)
(* calculate_winner, lines 769-798.                                        *)
(***************************************************************************)
CountsForTeam(type) == type = "NS" \/ type = "LS" \/ type = "AS"

\* variant: LS shots count for the individual score too
CountsForPlayer_all(type) ==
  type = "NS" \/ type = "ES" \/ type = "AS" \/ type = "LS"

CountsForPlayer(type) == type = "NS" \/ type = "ES" \/ type = "AS"

\* team_a_points / team_b_points after the loop over the shots
TeamPoints(sh, team) ==
  LET f[i \in 0..Len(sh)] ==
        IF i = 0 THEN 0
        ELSE f[i - 1] + (IF TeamName(sh[i].player) = team
                            /\ CountsForTeam(sh[i].type)
                         THEN sh[i].score ELSE 0)
  IN f[Len(sh)]

\* points_total_rd[player]["points"] after the loop over the shots
IndividualPoints(sh, player) ==
  LET f[i \in 0..Len(sh)] ==
        IF i = 0 THEN 0
        ELSE f[i - 1] + (IF sh[i].player = player
                            /\ CountsForPlayer(sh[i].type)
                         THEN sh[i].score ELSE 0)
  IN f[Len(sh)]

\* variant: among the players at the maximum the last one is taken
RoundWinnerPlayer_last(sh) ==
  LET pts_rd == [i \in PlayerIds |-> IndividualPoints(sh, i)]
  IN CHOOSE i \in PlayerIds :
       /\ pts_rd[i] = MaxOf(pts_rd)
       /\ \A j \in (i + 1)..NumPlayers : pts_rd[j] # MaxOf(pts_rd)

RoundWinnerPlayer(sh) ==
  LET pts_rd == [i \in PlayerIds |-> IndividualPoints(sh, i)]
  IN CHOOSE i \in PlayerIds :
       /\ pts_rd[i] = MaxOf(pts_rd)
       /\ \A j \in 1..(i - 1) : pts_rd[j] # MaxOf(pts_rd)

\* variant: a tied round goes to Team B, as a tied game does
RoundWinnerTeam_tieB(sh) ==
  IF TeamPoints(sh, "Team A") > TeamPoints(sh, "Team B")
  THEN "Team A" ELSE "Team B"

RoundWinnerTeam(sh) ==
  LET team_a_points == TeamPoints(sh, "Team A")
      team_b_points == TeamPoints(sh, "Team B")
  IN IF team_a_points # team_b_points
     THEN (IF team_a_points > team_b_points THEN "Team A" ELSE "Team B")
     ELSE "None"

Round(round_number, sh, lvs, evs, winner_player, winner_team) ==
  [round_number |-> round_number, shots |-> sh, luck_values |-> lvs,
   endurance_values |-> evs, winner_player |-> winner_player,
   winner_team |-> winner_team]

\* variant: the whole team of the winner gains the experience
AddExperience_team(pls, name) ==
  [i \in 1..Len(pls) |->
     IF pls[i].team = pls[name].team
     THEN [pls[i] EXCEPT !.experience = @ + 3] ELSE pls[i]]

\* winner.experience += 3
AddExperience(pls, name) == [pls EXCEPT ![name].experience = @ + 3]

CalculateWinner ==
  /\ pc = "winner"
  /\ LET winner_player == RoundWinnerPlayer(shots)
         winner_team == RoundWinnerTeam(shots)
     IN /\ players' = AddExperience(players, winner_player)
        /\ rounds' = Append(rounds,
                            Round(Len(rounds) + 1, shots, luck_values,
                                  endurance_values, winner_player, winner_team))
  /\ pc' = IF Len(rounds') = ROUNDS_PER_GAME THEN "game_winner" ELSE "luck"
  /\ UNCHANGED << genVars, numbers, current_number, consumed, failed, games, roundVars,
                  shown, results >>

(***************************************************************************)
(* calculate_game_winner, lines 820-860.                                   *)
(***************************************************************************)
GameTeamPoints(rds, team) ==
  LET f[i \in 0..Len(rds)] ==
        IF i = 0 THEN 0 ELSE f[i - 1] + TeamPoints(rds[i].shots, team)
  IN f[Len(rds)]

\* variant: a tied game goes to Team A
GameWinnerTeam_geq(rds) ==
  IF GameTeamPoints(rds, "Team A") >= GameTeamPoints(rds, "Team B")
  THEN "Team A" ELSE "Team B"

GameWinnerTeam(rds) ==
  IF GameTeamPoints(rds, "Team A") > GameTeamPoints(rds, "Team B")
  THEN "Team A" ELSE "Team B"

\* the list of {"player", "amount"} built by scanning names in order
Tally(names) ==
  LET f[i \in 0..Len(names)] ==
        IF i = 0 THEN << >>
        ELSE LET prev == f[i - 1]
             IN IF \E j \in 1..Len(prev) : prev[j].player = names[i]
                THEN [j \in 1..Len(prev) |->
                        IF prev[j].player = names[i]
                        THEN [prev[j] EXCEPT !.amount = @ + 1]
                        ELSE prev[j]]
                ELSE Append(prev, [player |-> names[i], amount |-> 1])
  IN f[Len(names)]

\* variant: the last entry with the largest amount
FirstMax_last(tally) ==
  LET amounts == [i \in 1..Len(tally) |-> tally[i].amount]
  IN tally[CHOOSE i \in 1..Len(tally) :
             /\ amounts[i] = MaxOf(amounts)
             /\ \A j \in (i + 1)..Len(tally) : amounts[j] # MaxOf(amounts)].player

\* the first entry with the largest amount
FirstMax(tally) ==
  LET amounts == [i \in 1..Len(tally) |-> tally[i].amount]
  IN tally[CHOOSE i \in 1..Len(tally) :
             /\ amounts[i] = MaxOf(amounts)
             /\ \A j \in 1..(i - 1) : amounts[j] # MaxOf(amounts)].player

RoundWinners(rds) == [r \in 1..Len(rds) |-> rds[r].winner_player]

\* the luck values of the rounds in scan order: round by round, A before B
LuckNames(rds) ==
  [n \in 1..(2 * Len(rds)) |->
     rds[(n + 1) \div 2].luck_values[2 - (n % 2)].player]

\* variant: the games are numbered from 0
Game_zero(game_number, rds, winner_team, winner_player, luckiest_player) ==
  [game_number |-> game_number - 1, rounds |-> rds, winner_team |-> winner_team,
   winner_player |-> winner_player, luckiest_player |-> luckiest_player]

Game(game_number, rds, winner_team, winner_player, luckiest_player) ==
  [game_number |-> game_number, rounds |-> rds, winner_team |-> winner_team,
   winner_player |-> winner_player, luckiest_player |-> luckiest_player]

CalculateGameWinner ==
  /\ pc = "game_winner"
  /\ \E rds_winners \in {Tally(RoundWinners(rounds))},
        lks_winners \in {Tally(LuckNames(rounds))} :
       games' = Append(games,
                       Game(Len(games) + 1, rounds, GameWinnerTeam(rounds),
                            FirstMax(rds_winners), FirstMax(lks_winners)))
  /\ rounds' = << >>
  /\ pc' = IF Len(games') = GAMES_AMOUNT THEN "analysis" ELSE "luck"
  /\ UNCHANGED << genVars, numbers, current_number, consumed, failed, players,
                  roundVars, shown, results >>

(***************************************************************************)
(* Lines 329-374: the analysis and the hand-over to the presenter.  Of the *)
(* bundle the model keeps the reductions named below.                      *)
(***************************************************************************)
calculate_more_experienced_player(pls) ==
  CHOOSE i \in 1..Len(pls) :
    /\ \A j \in 1..Len(pls) : pls[j].experience <= pls[i].experience
    /\ \A j \in 1..(i - 1) : pls[j].experience # pls[i].experience

calculate_team_winner(gms) ==
  IF Cardinality({ g \in 1..Len(gms) : gms[g].winner_team = "Team A" })
       > Cardinality({ g \in 1..Len(gms) : gms[g].winner_team = "Team B" })
  THEN "Team A" ELSE "Team B"

calculate_tied_rounds_analysis(gms) ==
  Cardinality({ << g, r >> \in (1..Len(gms)) \X (1..ROUNDS_PER_GAME) :
                  r <= Len(gms[g].rounds)
                  /\ gms[g].rounds[r].winner_team = "None" })

Analyze(gms, pls) ==
  [ more_experienced_player |-> calculate_more_experienced_player(pls),
    winner_team_total |-> calculate_team_winner(gms),
    tied_rounds_count |-> calculate_tied_rounds_analysis(gms),
    games_analyzed |-> Len(gms) ]

ShowResults ==
  /\ pc = "analysis"
  /\ results' = Append(results, Analyze(games, players))
  /\ shown' = shown + 1
  /\ pc' = "done"
  /\ UNCHANGED << genVars, numbers, current_number, consumed, failed, players, games,
                  rounds, roundVars >>

(***************************************************************************)
(* Lines 305-314: the except block prints the statistics of the moment and *)
(* returns.                                                                *)
(***************************************************************************)
ExceptIndexError ==
  /\ pc = "IndexError"
  /\ pc' = "returned"
  /\ UNCHANGED << genVars, numbers, current_number, consumed, failed, players, games,
                  rounds, roundVars, shown, results >>

Next ==
  \/ StartSimulation
  \/ GeneratePlayer
  \/ GenerateLuck
  \/ GeneratePlayerEndurance
  \/ NormalShot
  \/ EndNormalShots
  \/ SelectLuckyPlayers
  \/ LuckyShot
  \/ AdvantageShot
  \/ FindTies
  \/ ExtraShot
  \/ CalculateWinner
  \/ CalculateGameWinner
  \/ ShowResults
  \/ ExceptIndexError

Spec == Init /\ [][Next]_vars

\* the streams of the runs checked under fairness: constant ones, on which
\* no tie is ever broken, and two that vary
FairStreams ==
  { GenStream(a, 0, x, n) : a \in {1, 5}, x \in {3, 12}, n \in StreamLens }

FairInit ==
  /\ numbers \in FairStreams
  /\ Constructed
  /\ GenIdle

\* start_simulation runs in a thread of its own (src/view.py:161-162): while a
\* step of it is possible, one is eventually taken
FairSpec == FairInit /\ [][Next]_vars /\ WF_vars(Next)

TypeOK ==
  /\ current_number \in 0..Len(numbers)
  /\ pc \in {"start", "cancelled", "players", "uncaught", "luck", "endurance",
             "ns", "lucky", "ls", "as", "tie", "es", "winner", "game_winner",
             "analysis", "done", "IndexError", "returned"}
  /\ Len(players) <= NumPlayers
  /\ Len(games) <= GAMES_AMOUNT
  /\ Len(rounds) < ROUNDS_PER_GAME \/ pc = "game_winner"

(***************************************************************************)
(* generate_numbers (src/numbs_aux.py:12-22): the linear congruential      *)
(* generator.  A call is modelled on its own: GenInit draws the            *)
(* configuration and enters the loop, one action is one iteration.  The    *)
(* float R_i = X_i / (m - 1) is kept as the fraction it is the rounding    *)
(* of; for the moduli enumerated the double is below 1.0 exactly when the  *)
(* fraction is.                                                            *)
(***************************************************************************)
MaxK == 3
MaxG == 4
MaxX0 == 3
MaxC == 2

Configurations == [k : 0..MaxK, g : 0..MaxG, X0 : 0..MaxX0, c : 0..MaxC]

simVars == << numbers, current_number, consumed, failed, pc, players, games,
              rounds, roundVars, shown, results >>

\* a = 1 + 2*conf['k']
Multiplier(cf) == 1 + 2 * cf.k

\* m = 2**conf['g']
Modulus(cf) == 2 ^ cf.g

\* the loop runs for i in range(1, (m//2)+1)
Iterations(cf) == Modulus(cf) \div 2

\* variant: the increment c is left out
NextX_noinc(cf, x) == (Multiplier(cf) * x) % Modulus(cf)

\* X_i = ((a * X_i_minus_1) + conf['c']) % m
NextX(cf, x) == ((Multiplier(cf) * x) + cf.c) % Modulus(cf)

\* R_i = X_i / (m - 1)
Normalize(cf, x) == [num |-> x, den |-> Modulus(cf) - 1]

GenInit ==
  /\ numbers = << >>
  /\ Constructed
  /\ conf \in Configurations
  /\ X_i_minus_1 = conf.X0
  /\ gen_i = 1
  /\ gen_numbers = << >>
  /\ gen_pc = "loop"

\* one iteration of the for loop
GenerateNumbersStep ==
  /\ gen_pc = "loop"
  /\ gen_i <= Iterations(conf)
  /\ LET X_i == NextX(conf, X_i_minus_1)
     IN /\ X_i_minus_1' = X_i
        /\ gen_numbers' = Append(gen_numbers, Normalize(conf, X_i))
  /\ gen_i' = gen_i + 1
  /\ UNCHANGED << conf, gen_pc, simVars >>

\* return numbers
GenerateNumbersReturn ==
  /\ gen_pc = "loop"
  /\ gen_i > Iterations(conf)
  /\ gen_pc' = "returned"
  /\ UNCHANGED << conf, X_i_minus_1, gen_i, gen_numbers, simVars >>

GenNext ==
  \/ GenerateNumbersStep
  \/ GenerateNumbersReturn

GenSpec == GenInit /\ [][GenNext]_vars

(***************************************************************************)
(* Properties.                                                             *)
(***************************************************************************)
\* the sum of the scores of the shots of sh at the positions in S
RECURSIVE ScoreSum(_, _)
ScoreSum(sh, S) ==
  IF S = {} THEN 0
  ELSE LET i == CHOOSE j \in S : TRUE
       IN sh[i].score + ScoreSum(sh, S \ {i})

TeamShots(sh, team) ==
  { i \in 1..Len(sh) : TeamName(sh[i].player) = team
                       /\ sh[i].type \in {"NS", "LS", "AS"} }

PlayerShots(sh, player) ==
  { i \in 1..Len(sh) : sh[i].player = player
                       /\ sh[i].type \in {"NS", "ES", "AS"} }

ShotsOfType(sh, type) == { i \in 1..Len(sh) : sh[i].type = type }

Scores == {0, 8, 9, 10}

\* the round resolved last
LastRound == rounds[Len(rounds)]

\* the game resolved last
LastGame == games[Len(games)]

Exhausted == current_number >= Len(numbers)

\* calculate_winner has just appended LastRound
RoundResolved ==
  /\ rounds # << >>
  /\ (pc = "luck" /\ players_luck = << >>) \/ pc = "game_winner"

\* calculate_game_winner has just appended LastGame
GameResolved ==
  /\ games # << >>
  /\ rounds = << >>
  /\ (pc = "luck" /\ players_luck = << >>) \/ pc = "analysis"

\* C1: the stream is consumed strictly in order: the values returned so far
\* are exactly the first current_number loaded values, in order, so the k-th
\* successful call returned the k-th value, each call advanced the cursor by
\* one and no value was skipped or returned twice.
C1_ConsumedInOrder ==
  /\ current_number <= Len(numbers)
  /\ Len(consumed) = current_number
  /\ \A i \in 1..Len(consumed) : consumed[i] = numbers[i]

C1_Witness == pc = "ns" /\ Len(games) = 1 /\ Len(consumed) > 100

\* C2: once all loaded values are consumed, a step never returns a value nor
\* moves the cursor, and a step that calls get_pseudorandom_number raises.
C2_ExhaustedCallsFail ==
  [][Exhausted =>
       /\ current_number' = current_number
       /\ consumed' = consumed
       /\ (pc \in {"players", "luck", "ls", "es"}
             \/ (pc = "ns" /\ current_endurance >= 5)
             \/ (pc = "endurance" /\ NeedsReduction(players[p], rounds))
             \/ (pc = "as" /\ has_special_shots_consecutive(rounds, p)))
            => (failed' = failed + 1 /\ pc' \in {"IndexError", "uncaught"})]_vars

C2_Witness == failed = 1 /\ pc = "IndexError" /\ Exhausted /\ numbers # << >>

\* C3: when the stream is exhausted during the games, the run ends having
\* handed the analysis of the games completed so far to the presenter (stated
\* for runs that completed at least one game).
C3_PartialResultsReported ==
  (pc = "returned" /\ games # << >>) =>
    /\ shown = 1
    /\ results = << Analyze(games, players) >>

\* C4: when a run of start_simulation returns, the bundle has been handed to
\* the presenter exactly once.
C4_ShownExactlyOnce ==
  pc \in {"done", "returned"} => (shown = 1 /\ Len(results) = 1)

\* the LS shots the round gets when the streak players are walked in order o
LuckyShotsFor(o) ==
  LET lst == RoundLuckiest(luck_values) \o o
  IN [i \in 1..Len(lst) |->
        IF current_number + i <= Len(numbers)
        THEN do_shot(players[lst[i]], Len(shots) + i, "LS",
                     numbers[current_number + i])
        ELSE Shot(lst[i], 0, Len(shots) + i, "IndexError")]

\* C5: the output is determined by the stream: whichever run it is, the LS
\* shots of a round (player, score, type, number) are the same.
C5_Deterministic ==
  pc = "lucky" =>
    \A o1, o2 \in Orderings(StreakPlayers(rounds)) :
      LuckyShotsFor(o1) = LuckyShotsFor(o2)

\* C6: in round 1 of every game every player's endurance value is the
\* player's original_endurance.
C6_FirstRoundEndurance ==
  (RoundResolved /\ Len(rounds) = 1) =>
    /\ rounds[1].round_number = 1
    /\ \A i \in 1..Len(rounds[1].endurance_values) :
         LET ev == rounds[1].endurance_values[i]
         IN ev.value = players[ev.player].original_endurance

\* a second game whose first round is recorded, a player having ended the
\* first game below the original endurance
C6_Witness ==
  /\ Len(games) >= 1
  /\ RoundResolved
  /\ Len(rounds) = 1
  /\ \E i \in PlayerIds :
       /\ games[1].rounds[ROUNDS_PER_GAME].endurance_values[i].value
            # players[i].original_endurance
       /\ players[i].experience >= 19

\* C7: in every step, no player's experience or total_points decreases, and
\* no player is replaced.
C7_Monotone ==
  [][/\ Len(players') >= Len(players)
     /\ \A i \in 1..Len(players) :
          /\ players'[i].experience >= players[i].experience
          /\ players'[i].total_points >= players[i].total_points]_vars

\* points and experience kept across a game boundary and through an abort
C7_Witness ==
  /\ pc = "returned"
  /\ Len(games) >= 1
  /\ shots # << >>
  /\ \E i \in PlayerIds : players[i].experience > 10
  /\ \A i \in PlayerIds : players[i].total_points > 0

\* C8: a round's winner_team is null exactly when the NS, LS and AS scores
\* of the two teams sum to the same value, and otherwise is the team with
\* the higher sum.
C8_RoundTie ==
  RoundResolved =>
    LET a == ScoreSum(LastRound.shots, TeamShots(LastRound.shots, "Team A"))
        b == ScoreSum(LastRound.shots, TeamShots(LastRound.shots, "Team B"))
    IN /\ LastRound.winner_team = "None" <=> a = b
       /\ a > b => LastRound.winner_team = "Team A"
       /\ b > a => LastRound.winner_team = "Team B"

C8_Witness ==
  /\ RoundResolved
  /\ LastRound.winner_team = "None"
  /\ ScoreSum(LastRound.shots, TeamShots(LastRound.shots, "Team A")) > 0

\* sh with the score of shot i replaced by s
WithScore(sh, i, s) == [sh EXCEPT ![i].score = s]

\* C9: the individual winner of a round is decided by the NS, ES and AS
\* scores and the team winner by the NS, LS and AS scores: whatever score an
\* LS shot had, winner_player would be the same, and whatever score an ES
\* shot had, winner_team would be the same.
C9_Exclusion ==
  RoundResolved =>
    LET sh == LastRound.shots
    IN /\ \A i \in PlayerIds :
            ScoreSum(sh, PlayerShots(sh, i))
              <= ScoreSum(sh, PlayerShots(sh, LastRound.winner_player))
       /\ \A i \in ShotsOfType(sh, "LS") : \A s \in Scores :
            RoundWinnerPlayer(WithScore(sh, i, s)) = LastRound.winner_player
       /\ \A i \in ShotsOfType(sh, "ES") : \A s \in Scores :
            RoundWinnerTeam(WithScore(sh, i, s)) = LastRound.winner_team

C9_Witness ==
  /\ RoundResolved
  /\ ShotsOfType(LastRound.shots, "LS") # {}
  /\ ShotsOfType(LastRound.shots, "ES") # {}
  /\ \E i \in ShotsOfType(LastRound.shots, "LS") :
       LastRound.shots[i].score > 0

\* the NS, LS and AS scores of the team over all rounds of the game
GameTotal(game, team) ==
  LET f[r \in 0..Len(game.rounds)] ==
        IF r = 0 THEN 0
        ELSE f[r - 1] + ScoreSum(game.rounds[r].shots,
                                 TeamShots(game.rounds[r].shots, team))
  IN f[Len(game.rounds)]

\* C10: a game's winner_team is Team A exactly when Team A's total is
\* strictly higher, Team B otherwise (equal totals included), never null.
C10_GameWinner ==
  GameResolved =>
    /\ LastGame.winner_team \in {"Team A", "Team B"}
    /\ LastGame.winner_team = "Team A"
         <=> GameTotal(LastGame, "Team A") > GameTotal(LastGame, "Team B")

\* a game with equal totals
C10_Witness ==
  /\ GameResolved
  /\ GameTotal(LastGame, "Team A") = GameTotal(LastGame, "Team B")
  /\ LastGame.winner_team = "Team B"


\* the player's individual score of the round: its NS, ES and AS scores
IndividualScore(sh, player) == ScoreSum(sh, PlayerShots(sh, player))

\* C11: a round's winner_player has the maximum individual score (NS + ES +
\* AS) over all players, and every player before it in roster order has a
\* strictly lower one.
C11_RoundWinnerPlayer ==
  RoundResolved =>
    LET sh == LastRound.shots
        w == LastRound.winner_player
    IN /\ w \in PlayerIds
       /\ \A i \in PlayerIds : IndividualScore(sh, i) <= IndividualScore(sh, w)
       /\ \A j \in 1..(w - 1) : IndividualScore(sh, j) < IndividualScore(sh, w)

\* a round where a later player shares the maximum with the winner
C11_Witness ==
  /\ RoundResolved
  /\ \E i \in PlayerIds :
       /\ i > LastRound.winner_player
       /\ IndividualScore(LastRound.shots, i)
            = IndividualScore(LastRound.shots, LastRound.winner_player)
       /\ IndividualScore(LastRound.shots, i) > 0

\* the resolved rounds of the run: those of the finished games, then those of
\* the game in progress
RunRounds ==
  [n \in 1..(Len(games) * ROUNDS_PER_GAME + Len(rounds)) |->
     IF n <= Len(games) * ROUNDS_PER_GAME
     THEN games[1 + (n - 1) \div ROUNDS_PER_GAME]
            .rounds[1 + ((n - 1) % ROUNDS_PER_GAME)]
     ELSE rounds[n - Len(games) * ROUNDS_PER_GAME]]

RoundsWon(player) ==
  Cardinality({ n \in 1..Len(RunRounds) : RunRounds[n].winner_player = player })

ExperienceSum ==
  LET f[i \in 0..Len(players)] ==
        IF i = 0 THEN 0
        ELSE LET prev == f[i - 1] IN prev + players[i].experience
  IN f[Len(players)]

\* C12: at every moment of the run each player's experience is 10 plus 3 for
\* every resolved round that player won, so a round resolution gives 3 to
\* the round's winner_player and nothing to anyone else, and once all players
\* exist the experiences sum to 10 per player plus 3 per resolved round.
C12_Experience ==
  /\ \A i \in 1..Len(players) :
       players[i].experience = 10 + 3 * RoundsWon(i)
  /\ Len(players) = NumPlayers
       => ExperienceSum = 10 * NumPlayers + 3 * Len(RunRounds)

\* the run is over, two players have won rounds and one has won none
C12_Witness ==
  /\ pc = "done"
  /\ Len(RunRounds) = GAMES_AMOUNT * ROUNDS_PER_GAME
  /\ \E i, j, l \in PlayerIds :
       /\ i # j
       /\ players[i].experience >= 16
       /\ players[j].experience >= 13
       /\ players[l].experience = 10

\* the scores of all shots (of any type) of the player in the recorded rounds
ShotTotal(player) ==
  LET f[n \in 0..Len(RunRounds)] ==
        IF n = 0 THEN 0
        ELSE LET prev == f[n - 1]
                 sh == RunRounds[n].shots
             IN prev + ScoreSum(sh, { i \in 1..Len(sh) : sh[i].player = player })
  IN f[Len(RunRounds)]

\* C13: after every completed round (and game) each player's total_points is
\* the sum of the scores of all its shots, NS, LS, AS and ES, of all rounds of
\* all games of the run.
C13_TotalPoints ==
  (RoundResolved \/ GameResolved) =>
    \A i \in PlayerIds : players[i].total_points = ShotTotal(i)

\* a round of the second game is resolved and some player has fired shots
\* of all four types
C13_Witness ==
  /\ RoundResolved
  /\ Len(games) >= 1
  /\ \E i \in PlayerIds :
       \A t \in {"NS", "LS", "AS", "ES"} :
         \E n \in 1..Len(RunRounds) :
           \E s \in 1..Len(RunRounds[n].shots) :
             /\ RunRounds[n].shots[s].player = i
             /\ RunRounds[n].shots[s].type = t
             /\ RunRounds[n].shots[s].score > 0

\* how often x occurs in names, and where it occurs first
Occurrences(names, x) == Cardinality({ n \in 1..Len(names) : names[n] = x })

FirstAt(names, x) ==
  CHOOSE n \in 1..Len(names) :
    names[n] = x /\ \A l \in 1..(n - 1) : names[l] # x

\* w occurs most often in names; any other name as frequent occurs first later
MostFirst(names, w) ==
  /\ Occurrences(names, w) > 0
  /\ \A x \in { names[n] : n \in 1..Len(names) } :
       /\ Occurrences(names, x) <= Occurrences(names, w)
       /\ (x # w /\ Occurrences(names, x) = Occurrences(names, w))
            => FirstAt(names, w) < FirstAt(names, x)

\* the luckiest player of the team in the round
TeamLuckiest(round, team) ==
  round.luck_values[CHOOSE i \in 1..Len(round.luck_values) :
                      TeamName(round.luck_values[i].player) = team].player

\* the luckiest players of the rounds, round by round, team A's before team B's
LuckScan(rds) ==
  [n \in 1..(2 * Len(rds)) |->
     TeamLuckiest(rds[(n + 1) \div 2],
                  IF n % 2 = 1 THEN "Team A" ELSE "Team B")]

\* C14: a game's winner_player has the most round wins of the game and its
\* luckiest_player the most appearances among the per-round luck values; among
\* players with the same count the one met first in the scan wins.
C14_GameWinnerPlayer ==
  GameResolved =>
    /\ MostFirst([r \in 1..Len(LastGame.rounds) |->
                    LastGame.rounds[r].winner_player], LastGame.winner_player)
    /\ MostFirst(LuckScan(LastGame.rounds), LastGame.luckiest_player)

\* both counts are tied and neither winner is the first of the roster among
\* the tied
C14_Witness ==
  /\ GameResolved
  /\ \E i \in PlayerIds :
       /\ i < LastGame.winner_player
       /\ Occurrences(RoundWinners(LastGame.rounds), i)
            = Occurrences(RoundWinners(LastGame.rounds), LastGame.winner_player)
  /\ \E i \in PlayerIds :
       /\ i < LastGame.luckiest_player
       /\ Occurrences(LuckScan(LastGame.rounds), i)
            = Occurrences(LuckScan(LastGame.rounds), LastGame.luckiest_player)

\* the recurrence value X_n of the configuration
RECURSIVE RecurrenceValue(_, _)
RecurrenceValue(cf, n) ==
  IF n = 0 THEN cf.X0
  ELSE ((1 + 2 * cf.k) * RecurrenceValue(cf, n - 1) + cf.c) % (2 ^ cf.g)

\* C15: the i-th value generate_numbers emits is X_i / (m - 1) with a = 1 +
\* 2k, m = 2^g and X_i = (a X_(i-1) + c) mod m from X0; the call returns
\* exactly m/2 values (none for m = 1); for k=3, g=4, X0=1, c=1 the first two
\* values are 8/15 and 9/15.
C15_GenerateNumbers ==
  /\ \A n \in 1..Len(gen_numbers) :
       gen_numbers[n] = [num |-> RecurrenceValue(conf, n), den |-> 2 ^ conf.g - 1]
  /\ gen_pc = "returned" =>
       /\ Len(gen_numbers) = (2 ^ conf.g) \div 2
       /\ conf.g >= 1 => 2 * Len(gen_numbers) = 2 ^ conf.g
  /\ (gen_pc = "returned" /\ conf = [k |-> 3, g |-> 4, X0 |-> 1, c |-> 1]) =>
       /\ gen_numbers[1] = [num |-> 8, den |-> 15]
       /\ gen_numbers[2] = [num |-> 9, den |-> 15]

\* the call for the configuration k=3, g=4, X0=1, c=1 has returned
C15_Witness ==
  /\ gen_pc = "returned"
  /\ conf = [k |-> 3, g |-> 4, X0 |-> 1, c |-> 1]
  /\ Len(gen_numbers) = 8

\* C16: every value generate_numbers emits lies in [0,1): the recurrence
\* value is never m - 1.
C16_UnitInterval ==
  \A n \in 1..Len(gen_numbers) :
    /\ 0 <= gen_numbers[n].num
    /\ gen_numbers[n].num < gen_numbers[n].den

\* the player is one of the round's luck values
LuckyIn(round, player) ==
  \E n \in 1..Len(round.luck_values) : round.luck_values[n].player = player

\* the shots of the type the player has in sh
ShotsBy(sh, player, type) ==
  { n \in 1..Len(sh) : sh[n].player = player /\ sh[n].type = type }

\* the rounds of the game completed before the round resolved last
Completed == Len(rounds) - 1

\* C17: streaks are counted within a game only: rounds 1 and 2 of every game
\* have no AS shot and rounds 1 to 3 of every game have exactly two LS shots,
\* whatever the luck values of the previous game were.
C17_SameGameOnly ==
  RoundResolved =>
    /\ LastRound.round_number = Len(rounds)
    /\ LastRound.round_number <= 2 => ShotsOfType(LastRound.shots, "AS") = {}
    /\ LastRound.round_number <= 3
         => Cardinality(ShotsOfType(LastRound.shots, "LS")) = 2

\* a round of the second game among its first two, won in luck by a player
\* who was also the luckiest of its team in the last three rounds of the
\* first game
C17_Witness ==
  /\ RoundResolved
  /\ Len(games) >= 1
  /\ Len(rounds) <= 2
  /\ \E i \in PlayerIds :
       /\ LuckyIn(LastRound, i)
       /\ \A r \in (ROUNDS_PER_GAME - 2)..ROUNDS_PER_GAME :
            LuckyIn(LastGame.rounds[r], i)

\* the NS shots of the player in sh
NormalShotsOf(sh, player) == ShotsBy(sh, player, "NS")

\* C18: an NS shot is fired only with 5 or more endurance left, takes one
\* stream value and 5 units of endurance and adds its score to the tally;
\* when a player's loop ends it has fired floor(e/5) NS shots for its
\* endurance value e of the round and the tally recorded is the sum of their
\* scores; the recorded round has floor(e/5) NS shots of every player.
C18_NormalShots ==
  [][/\ (pc = "ns" /\ shots' # shots) =>
          /\ current_endurance >= 5
          /\ current_endurance' = current_endurance - 5
          /\ current_number' = current_number + 1
          /\ shots' = Append(shots, shots'[Len(shots')])
          /\ shots'[Len(shots')].type = "NS"
          /\ shots'[Len(shots')].player = p
          /\ pts' = pts + shots'[Len(shots')].score
     /\ (pc = "ns" /\ pc' \in {"endurance", "lucky"}) =>
          /\ Cardinality(NormalShotsOf(shots, p)) = endurance \div 5
          /\ endurance_values'[p] = EnduranceValue(p, endurance)
          /\ points_total_rd'[p] = ScoreSum(shots, NormalShotsOf(shots, p))
     /\ (pc = "winner" /\ pc' # "winner") =>
          \A i \in PlayerIds :
            Cardinality(NormalShotsOf(rounds'[Len(rounds')].shots, i))
              = EnduranceOf(rounds', Len(rounds'), i) \div 5]_vars

\* a round is recorded in which two players fired different numbers of NS
\* shots, one of them with an endurance that is no multiple of 5
C18_Witness ==
  /\ RoundResolved
  /\ \E i, j \in PlayerIds :
       /\ Cardinality(NormalShotsOf(LastRound.shots, i))
            > Cardinality(NormalShotsOf(LastRound.shots, j))
       /\ EnduranceOf(rounds, Len(rounds), i) % 5 # 0
       /\ Cardinality(NormalShotsOf(LastRound.shots, j)) >= 5

\* the player was a luck value of each of the last n completed rounds
LuckyInLast(n, player) ==
  /\ Completed >= n
  /\ \A r \in (Completed - n + 1)..Completed : LuckyIn(rounds[r], player)

NormalTally(sh, player) == ScoreSum(sh, ShotsBy(sh, player, "NS"))

\* the players that share the maximum NS tally
TiedPlayers(sh) ==
  { i \in PlayerIds : \A j \in PlayerIds : NormalTally(sh, j) <= NormalTally(sh, i) }

\* the first n ES shots of sh
FirstExtra(sh, n) ==
  { e \in ShotsOfType(sh, "ES") :
      Cardinality({ d \in ShotsOfType(sh, "ES") : d <= e }) <= n }

\* the tally of the player after the first n ES shots of sh
TallyAfter(sh, player, n) ==
  NormalTally(sh, player)
    + ScoreSum(sh, { e \in FirstExtra(sh, n) : sh[e].player = player })

\* the tallies of the players of T are pairwise distinct after n ES shots
Distinct(sh, T, n) ==
  \A i, j \in T : i # j => TallyAfter(sh, i, n) # TallyAfter(sh, j, n)

\* C21: when shot generation returns, ES shots exist exactly when two or more
\* players share the maximum NS tally; then every tied player has the same
\* number of ES shots, one per pass, no other player has one, the tallies of
\* the tied players (NS plus ES) are pairwise distinct and were not after
\* any earlier pass.
C21_ExtraShots ==
  pc = "winner" =>
    LET T == TiedPlayers(shots)
        passes == Cardinality(ShotsOfType(shots, "ES")) \div Cardinality(T)
    IN /\ ShotsOfType(shots, "ES") # {} <=> Cardinality(T) >= 2
       /\ \A i \in PlayerIds \ T : ShotsBy(shots, i, "ES") = {}
       /\ \A i \in T : Cardinality(ShotsBy(shots, i, "ES")) = passes
       /\ \A q \in 1..passes : \A i \in T :
            Cardinality({ e \in FirstExtra(shots, q * Cardinality(T)) :
                            shots[e].player = i }) = q
       /\ Distinct(shots, T, passes * Cardinality(T))
       /\ \A q \in 0..(passes - 1) :
            Cardinality(T) >= 2 => ~Distinct(shots, T, q * Cardinality(T))
       /\ \A i \in PlayerIds :
            points_total_rd[i]
              = TallyAfter(shots, i, Cardinality(ShotsOfType(shots, "ES")))

\* the tie took two passes to break
C21_Witness ==
  /\ pc = "winner"
  /\ Cardinality(TiedPlayers(shots)) >= 2
  /\ \E i \in TiedPlayers(shots) : Cardinality(ShotsBy(shots, i, "ES")) >= 2
  /\ \E i \in PlayerIds \ TiedPlayers(shots) : NormalTally(shots, i) > 0

\* C22: in a round that is not the first of its game, a player whose
\* experience is 19 or more when the endurance is computed gets
\* original_endurance - 1 and the step reads nothing from the stream.
C22_ExperiencedEndurance ==
  [][(pc = "endurance" /\ rounds # << >> /\ players[p].experience >= 19) =>
       /\ endurance' = players[p].original_endurance - 1
       /\ current_endurance' = endurance'
       /\ current_number' = current_number
       /\ consumed' = consumed
       /\ pc' = "ns"]_vars

\* an experienced player has got original_endurance - 1 in a round after a
\* round where its endurance was original_endurance - 1 too
C22_Witness ==
  /\ pc = "ns"
  /\ Len(rounds) >= 2
  /\ players[p].experience >= 19
  /\ current_endurance = endurance
  /\ Len(endurance_values) = p - 1
  /\ endurance = players[p].original_endurance - 1
  /\ EnduranceOf(rounds, Len(rounds), p) = players[p].original_endurance - 1

\* generatePlayer_endurance has just returned the endurance of player p
EnduranceComputed ==
  /\ pc = "ns"
  /\ current_endurance = endurance
  /\ Len(endurance_values) = p - 1

\* C23: in a round that is not the first of its game, a player with
\* experience below 19 gets the previous round's endurance plus max(0, spent
\* - penalty), floored at 0, where penalty is 1, 2 or 3 and spent is the
\* endurance the player used up in the previous round, 5 per NS shot.
C23_Recovery ==
  (EnduranceComputed /\ rounds # << >> /\ players[p].experience < 19) =>
    LET previous == EnduranceOf(rounds, Len(rounds), p)
        spent == 5 * Cardinality(ShotsBy(LastRound.shots, p, "NS"))
    IN \E penalty \in {1, 2, 3} :
         endurance = Max(0, previous + Max(0, spent - penalty))

TableScore(is_male, u) ==
  IF is_male
  THEN (IF u <= 150 THEN 10 ELSE IF u <= 450 THEN 9 ELSE IF u <= 920 THEN 8
        ELSE 0)
  ELSE (IF u <= 250 THEN 10 ELSE IF u <= 650 THEN 9 ELSE IF u <= 950 THEN 8
        ELSE 0)

\* C24: every step that emits a shot reads exactly one stream value u, and
\* the shot's score is the table value for u and the shooter's gender, hence
\* one of 0, 8, 9, 10, whatever the type of the shot.
C24_ShotScore ==
  [][Len(shots') = Len(shots) + 1 =>
       LET shot == shots'[Len(shots')]
       IN /\ current_number' = current_number + 1
          /\ shot.score = TableScore(players[shot.player].is_male,
                                     numbers[current_number + 1])
          /\ shot.score \in Scores
          /\ shot.type \in {"NS", "LS", "AS", "ES"}]_vars

\* a male player has just scored 8 with a draw of exactly 0.92
C24_Witness ==
  /\ pc = "ns"
  /\ current_endurance < endurance
  /\ shots # << >>
  /\ shots[Len(shots)].player = p
  /\ players[p].is_male
  /\ consumed[Len(consumed)] = 920
  /\ shots[Len(shots)].score = 8

\* C25: at every point of the run every game of the games list has exactly
\* ROUNDS_PER_GAME rounds numbered 1, 2, ... in order and a game_number equal
\* to its position in the list; the rounds of an aborted game are in no game.
C25_GamesWellFormed ==
  /\ \A g \in 1..Len(games) :
       /\ games[g].game_number = g
       /\ Len(games[g].rounds) = ROUNDS_PER_GAME
       /\ \A r \in 1..ROUNDS_PER_GAME : games[g].rounds[r].round_number = r
  /\ \A r \in 1..Len(rounds) : rounds[r].round_number = r
  /\ pc \in {"IndexError", "returned"} =>
       /\ Len(rounds) < ROUNDS_PER_GAME
       /\ Len(games) < GAMES_AMOUNT

\* the run was aborted in the second game with some of its rounds resolved
C25_Witness ==
  /\ pc = "returned"
  /\ Len(games) = 1
  /\ Len(rounds) >= 1

\* start_simulation has returned or has been left by the exception
Terminated == pc \in {"done", "cancelled", "returned", "uncaught"}

\* C27: every run ends; it ends with all games played, or with the stream
\* exhausted, or declined by the user before it starts; and every shot of
\* the tie-break takes a value from the stream or raises, so an unbroken tie
\* runs into the exhaustion error.
C27_Terminates ==
  /\ <>Terminated
  /\ [](/\ pc = "done" => Len(games) = GAMES_AMOUNT
        /\ pc \in {"returned", "uncaught"} => Exhausted
        /\ pc = "cancelled" => ~check_simulation_feasibility)
  /\ [][pc = "es" => \/ current_number' = current_number + 1
                     \/ pc' = "IndexError" /\ Exhausted]_vars

\* a tie that two whole passes did not break has ended in the exhaustion error
C27_Witness ==
  /\ pc = "returned"
  /\ Cardinality(ShotsOfType(shots, "ES")) >= 2 * Cardinality(TiedPlayers(shots))
  /\ Cardinality(TiedPlayers(shots)) >= 2
  /\ ~Distinct(shots, TiedPlayers(shots), Cardinality(ShotsOfType(shots, "ES")))

\* the experience of a player when round n of the run started
ExperienceBefore(n, player) ==
  10 + 3 * Cardinality({ m \in 1..(n - 1) : RunRounds[m].winner_player = player })

\* the stream values round n of the run reads: the luck draws, the reductions
\* and the shots
RoundCost(n) ==
  2 * NumPlayers
  + (IF RunRounds[n].round_number = 1 THEN 0
     ELSE Cardinality({ i \in PlayerIds : ExperienceBefore(n, i) < 19 }))
  + Len(RunRounds[n].shots)

CostUpTo(n) ==
  LET f[i \in 0..n] == IF i = 0 THEN 0 ELSE LET prev == f[i - 1]
                                             IN prev + RoundCost(i)
  IN f[n]

\* C28: stream accounting per round: a completed round has read two values per
\* player for luck, one value per player whose experience was below 19 when
\* the round is not the first of its game, and one value per shot of its shot
\* list, and nothing else; so after every resolved round the cursor stands at
\* the two values per player of the roster plus the sum of these per round.
C28_StreamAccounting ==
  (RoundResolved \/ GameResolved) =>
    current_number = 2 * NumPlayers + CostUpTo(Len(RunRounds))

\* a later round of a game with a player exempt from the reduction, one who
\* is not, and shots beyond the normal ones
C28_Witness ==
  /\ RoundResolved
  /\ LastRound.round_number > 1
  /\ \E i \in PlayerIds : ExperienceBefore(Len(RunRounds), i) >= 19
  /\ \E i \in PlayerIds : ExperienceBefore(Len(RunRounds), i) < 19
  /\ ShotsOfType(LastRound.shots, "ES") # {}
  /\ Len(games) >= 1

\* position of a shot type in the order of the phases
PhaseRank(type) ==
  CASE type = "NS" -> 1 [] type = "LS" -> 2 [] type = "AS" -> 3 [] type = "ES" -> 4

\* each shot is of the phase of the one before it or of a later one, and within
\* the NS phase of the same player or of a later one of the roster
PhaseOrdered(sh) ==
  /\ \A i \in 1..Len(sh) : sh[i].shot_number = i
  /\ \A i \in 1..(Len(sh) - 1) :
       /\ PhaseRank(sh[i].type) <= PhaseRank(sh[i + 1].type)
       /\ (sh[i].type = "NS" /\ sh[i + 1].type = "NS")
            => sh[i].player <= sh[i + 1].player

\* C29: within every round's shot list the i-th shot has shot_number i, and
\* the shots come in phase order: the NS shots, grouped by player in roster
\* order, then the LS shots, then the AS shots, then the ES shots.  It holds
\* of the list while it is built and of the list the round records.
C29_ShotOrder ==
  /\ PhaseOrdered(shots)
  /\ RoundResolved => (LastRound.shots = shots /\ PhaseOrdered(LastRound.shots))

\* a recorded round with shots of all four phases
C29_Witness ==
  /\ RoundResolved
  /\ \A type \in {"NS", "LS", "AS", "ES"} : ShotsOfType(LastRound.shots, type) # {}
  /\ \E i, j \in PlayerIds :
       /\ i # j
       /\ ShotsBy(LastRound.shots, i, "NS") # {}
       /\ ShotsBy(LastRound.shots, j, "NS") # {}

\* the NS and ES scores of the player in sh
NormalExtraScore(sh, player) ==
  ScoreSum(sh, ShotsBy(sh, player, "NS") \cup ShotsBy(sh, player, "ES"))

\* the players that attain the maximum of the NS and ES scores
TopPlayers(sh) ==
  { i \in PlayerIds :
      \A j \in PlayerIds : NormalExtraScore(sh, j) <= NormalExtraScore(sh, i) }

\* C30: in every round without an AS shot the tie-break leaves a unique
\* individual winner: the individual score is the NS and ES score, exactly one
\* player attains its maximum, and that player is the round's winner_player.
C30_UniqueWinner ==
  (RoundResolved /\ ShotsOfType(LastRound.shots, "AS") = {}) =>
    /\ \A i \in PlayerIds :
         IndividualScore(LastRound.shots, i) = NormalExtraScore(LastRound.shots, i)
    /\ TopPlayers(LastRound.shots) = { LastRound.winner_player }

\* a round late enough for AS shots that has none, in which the tie-break
\* took more than one pass
C30_Witness ==
  /\ RoundResolved
  /\ LastRound.round_number >= 3
  /\ ShotsOfType(LastRound.shots, "AS") = {}
  /\ Cardinality(TiedPlayers(LastRound.shots)) >= 2
  /\ Cardinality(ShotsOfType(LastRound.shots, "ES"))
       > Cardinality(TiedPlayers(LastRound.shots))

=============================================================================
